---- MODULE Spec2Model ----
(***************************************************************************)
(* gitlab-events (src/main.go, lines 1-264): one goroutine per watched     *)
(* project polls the project's event feed and appends new or modified      *)
(* events to a shared slice under a mutex; the main goroutine drains the   *)
(* slice once per second, sorts the drained events and prints them.        *)
(***************************************************************************)
EXTENDS Integers, Sequences, FiniteSets, TLC

VARIABLES
    args,                   \* flag.Args(): the positional arguments
    jsonOutput,             \* *jsonOutput: the flag --json
    mainpc,                 \* position of the main goroutine
    argIdx,                 \* index of the range loop over projectIDsStr
    exited,                 \* os.Exit was called
    exitCode,               \* the status os.Exit was called with
    stderrLines,            \* number of lines written to os.Stderr
    pc,                     \* position of each poller goroutine
    project,                \* the Project each poller fetched
    events,                 \* fetchProjectEvents' local `events`
    idx,                    \* addEvents' range index
    locked,                 \* state of _EventsMutex
    NewOrModifiedEvents,    \* _NewOrModifiedEvents
    EventChecksumsByID,     \* _EventChecksumsByID
    rEvents,                \* main's local `events` of the render loop
    nLines,                 \* number of lines written to os.Stdout so far
    \* history variables
    metaStatus,             \* resp.StatusCode of the response the project about to be
                            \* watched was decoded from
    feedStatus,             \* resp.StatusCode of the response the events about to be
                            \* passed to addEvents were decoded from
    recorded,               \* for each checksum, the fields of the event it was taken of
    nDecoded,               \* number of events decoded from the feeds so far
    nAppends,               \* number of appends to the queue so far
    inCall,                 \* appends of each poller's addEvents call in progress
    pendingSer,             \* for each queued event, the number of its append
    rSer,                   \* same, for the events the render loop copied
    drained,                \* the append numbers of the drained events, in order
    sortIn, sortOut,        \* input and output of a stand-alone sort.Slice call
    fpIn, fpOut,            \* two objects of the feed, and their checksums
    truncIn, truncOut       \* arguments and result of a stand-alone truncateString call

vars == << args, mainpc, argIdx, exited, exitCode, stderrLines, pc, project, events, idx,
           locked, NewOrModifiedEvents, EventChecksumsByID, rEvents,
           metaStatus, feedStatus, jsonOutput, nLines,
           recorded, nDecoded, nAppends, inCall, pendingSer, rSer, drained,
           sortIn, sortOut, fpIn, fpOut, truncIn, truncOut >>

(***************************************************************************)
(* Bounds                                                                  *)
(***************************************************************************)
MaxDecoded == 2     \* events decoded from the feeds in one behaviour
SortMaxLen == 7     \* length of the slices of the stand-alone sort
MaxShortLen == 3    \* length of the short texts, and the small values of maxLen

(***************************************************************************)
(* Program constants                                                       *)
(***************************************************************************)
ErrorDelay == 1     \* time.Sleep(1 * time.Second) after a failed fetch
PollDelay == 5      \* time.Sleep(5 * time.Second) at the end of each round
TitleMax == 100     \* {{trunc .TargetTitle 100}}
BodyMax == 400      \* {{trunc .Body 400}}

\* created_at is a string; strings are sequences of character codes
Timestamps == { <<0, 9>>, <<1, 0>> }

\* the decoded fields of the events the feeds return: two identities, each in
\* two versions; one identity changes its time, the other its title
Records ==
    { [ID |-> 1, CreatedAt |-> <<0, 9>>, TargetTitle |-> "a"],
      [ID |-> 1, CreatedAt |-> <<1, 0>>, TargetTitle |-> "a"],
      [ID |-> 2, CreatedAt |-> <<0, 9>>, TargetTitle |-> "a"],
      [ID |-> 2, CreatedAt |-> <<0, 9>>, TargetTitle |-> "b"] }

IDs == { r.ID : r \in Records }

\* the positional arguments the model starts with
ArgLists == { << >>,
              << <<"1">> >>,
              << <<"1">>, <<"2">> >>,
              << <<"1">>, <<"x">> >>,
              << <<"x">>, <<"1">> >> }
\* the command lines the model starts with, the arguments and the flag --json:
\* two projects watched with --json, one project watched without, and the
\* command lines main refuses
CommandLines ==
    { [args |-> << >>, json |-> FALSE],
      [args |-> << <<"1">> >>, json |-> FALSE],
      [args |-> << <<"1">>, <<"2">> >>, json |-> TRUE],
      [args |-> << <<"1">>, <<"x">> >>, json |-> FALSE],
      [args |-> << <<"x">>, <<"1">> >>, json |-> TRUE] }

\* one poller goroutine per positional argument
Pollers == UNION { DOMAIN a : a \in ArgLists }

(***************************************************************************)
(* strconv.ParseInt(s, 10, 64) on the short arguments of the model (the    *)
(* range check of 64 bits cannot fail on them)                             *)
(***************************************************************************)
DigitValue(c) ==
    CASE c = "0" -> 0 [] c = "1" -> 1 [] c = "2" -> 2 [] c = "3" -> 3
      [] c = "4" -> 4 [] c = "5" -> 5 [] c = "6" -> 6 [] c = "7" -> 7
      [] c = "8" -> 8 [] c = "9" -> 9 [] OTHER -> -1

RECURSIVE DigitsValue(_, _)
DigitsValue(s, acc) ==
    IF s = << >> THEN acc
    ELSE DigitsValue(Tail(s), acc * 10 + DigitValue(Head(s)))

ParseInt(s) ==
    LET signed == s # << >> /\ Head(s) \in {"+", "-"}
        digits == IF signed THEN Tail(s) ELSE s
        ok     == digits # << >> /\ \A i \in 1..Len(digits) : DigitValue(digits[i]) >= 0
    IN  IF ~ok THEN [err |-> TRUE, val |-> 0]
        ELSE [err |-> FALSE,
              val |-> IF signed /\ Head(s) = "-" THEN 0 - DigitsValue(digits, 0)
                      ELSE DigitsValue(digits, 0)]

(***************************************************************************)
(* The feed: response bodies, json.Unmarshal and json.Marshal              *)
(***************************************************************************)
\* a JSON object of the feed as it is on the wire: key/value pairs in some
\* order, possibly with a key the Event struct has no field for
WireObject(r, reversed, extra) ==
    LET known == IF reversed
                 THEN << <<"target_title", r.TargetTitle>>,
                         <<"created_at", r.CreatedAt>>, <<"id", r.ID>> >>
                 ELSE << <<"id", r.ID>>, <<"created_at", r.CreatedAt>>,
                         <<"target_title", r.TargetTitle>> >>
    IN  IF extra THEN << <<"target_type", "Issue">> >> \o known ELSE known

\* the feed lists the events of a project newest first, each identity once:
\* the sequences of records with strictly decreasing identities
RECURSIVE Descending(_)
Descending(ids) ==
    IF ids = {} THEN { << >> }
    ELSE LET top == CHOOSE i \in ids : \A j \in ids : j <= i
             rest == Descending(ids \ {top})
         IN  rest \cup { << r >> \o s : r \in { x \in Records : x.ID = top }, s \in rest }

Batches == Descending(IDs)

ArrayBody(batch, reversed, extra) ==
    [kind |-> "array",
     elems |-> [i \in 1..Len(batch) |-> WireObject(batch[i], reversed, extra)]]

\* what json.Unmarshal refuses: an HTML page, or a JSON value that is no array
HtmlBody == [kind |-> "html", elems |-> << >>]

Bodies == { HtmlBody }
          \cup { ArrayBody(b, rev, ex) : b \in Batches, rev \in BOOLEAN, ex \in BOOLEAN }

\* what a request ends with: an error of http.Get (line 123), an error of
\* ioutil.ReadAll (line 129), or a body that was read
Responses == { [err |-> e, body |-> HtmlBody] : e \in {"get", "read"} }
             \cup { [err |-> "none", body |-> x] : x \in Bodies }

Statuses == { 200, 504 }

\* the program never reads the status of a response (lines 121-169): the
\* status is drawn when one project is watched, and is 200 when there are two
\* pollers to interleave
StatusesHere == IF Len(args) = 1 THEN Statuses ELSE { 200 }

\* the value of the last pair of obj with this key, or the zero value
Lookup(obj, key, zero) ==
    LET at == { i \in 1..Len(obj) : obj[i][1] = key }
    IN  IF at = {} THEN zero
        ELSE obj[CHOOSE i \in at : \A j \in at : j <= i][2]

\* json.Unmarshal of one object into an Event: fields by name, the rest dropped
UnmarshalEvent(obj) ==
    [ID          |-> Lookup(obj, "id", 0),
     CreatedAt   |-> Lookup(obj, "created_at", << >>),
     TargetTitle |-> Lookup(obj, "target_title", "")]

\* json.Marshal of an Event: the fields in the order of the struct
Marshal(e) ==
    << <<"ID", e.ID>>, <<"created_at", e.CreatedAt>>, <<"target_title", e.TargetTitle>> >>

\* _Hasher is never written to: Sum(b) appends the digest of the empty input to b
EmptyDigest == <<"sha1", "da39a3ee5e6b4b0d3255bfef95601890afd80709">>
\* the digest alone, whatever b is
HasherSumDigestOnly(b) == << EmptyDigest >>

HasherSum(b) == Append(b, EmptyDigest)

\* the slices compared by their lengths alone
BytesEqualLengths(a, b) == Len(a) = Len(b)

BytesEqual(a, b) == a = b

\* the decoded fields of an event, without what fetchProjectEvents adds
Fields(e) == [ID |-> e.ID, CreatedAt |-> e.CreatedAt, TargetTitle |-> e.TargetTitle]

\* fetchProjectEvents, lines 139-142
Decorate(e, proj) ==
    [ID |-> e.ID, CreatedAt |-> e.CreatedAt, TargetTitle |-> e.TargetTitle,
     Project |-> proj, JSON |-> Marshal(e)]

(***************************************************************************)
(* sort.Slice(events, less) with less(i, j) = CreatedAt[i] < CreatedAt[j]  *)
(***************************************************************************)
\* Go's < on strings
RECURSIVE StringLess(_, _)
StringLess(a, b) ==
    IF b = << >> THEN FALSE
    ELSE IF a = << >> THEN TRUE
    ELSE IF Head(a) # Head(b) THEN Head(a) < Head(b)
    ELSE StringLess(Tail(a), Tail(b))

Less(x, y) == StringLess(x.CreatedAt, y.CreatedAt)

Swap(s, i, j) == [s EXCEPT ![i] = s[j], ![j] = s[i]]

\* for j := i; j > a && less(j, j-1); j-- { swap(j, j-1) }
RECURSIVE SinkLeft(_, _)
SinkLeft(s, j) ==
    IF j > 1 /\ Less(s[j], s[j - 1]) THEN SinkLeft(Swap(s, j, j - 1), j - 1) ELSE s

RECURSIVE InsertionSortFrom(_, _)
InsertionSortFrom(s, i) ==
    IF i > Len(s) THEN s ELSE InsertionSortFrom(SinkLeft(s, i), i + 1)

InsertionSort(s) == InsertionSortFrom(s, 2)

\* for i := a + 6; i < b; i++ { if less(i, i-6) { swap(i, i-6) } }
RECURSIVE ShellPassFrom(_, _)
ShellPassFrom(s, i) ==
    IF i > Len(s) THEN s
    ELSE ShellPassFrom(IF Less(s[i], s[i - 6]) THEN Swap(s, i, i - 6) ELSE s, i + 1)

\* the call of sort.Slice left out
SortSliceSkipped(s) == { s }

\* slices of at most 12 elements: Go 1.19 and later run insertion sort alone,
\* earlier releases run one shell pass with gap 6 first
SortSlice(s) == { InsertionSort(s), InsertionSort(ShellPassFrom(s, 7)) }

(***************************************************************************)
(* Initial state: the package-level variables of lines 29-37, main about   *)
(* to read flag.Args()                                                     *)
(***************************************************************************)
NoProject == [ID |-> 0]

Init ==
    /\ \E c \in CommandLines : args = c.args /\ jsonOutput = c.json
    /\ mainpc = "args"
    /\ argIdx = 1
    /\ exited = FALSE
    /\ exitCode = 0
    /\ stderrLines = 0
    /\ pc = [p \in Pollers |-> "unborn"]
    /\ project = [p \in Pollers |-> NoProject]
    /\ events = [p \in Pollers |-> << >>]
    /\ idx = [p \in Pollers |-> 0]
    /\ locked = FALSE
    /\ NewOrModifiedEvents = << >>
    /\ EventChecksumsByID = << >>
    /\ rEvents = << >>
    /\ nLines = 0
    /\ metaStatus = [p \in Pollers |-> 0]
    /\ feedStatus = [p \in Pollers |-> 0]
    /\ recorded = << >>
    /\ nDecoded = 0
    /\ nAppends = 0
    /\ inCall = [p \in Pollers |-> 0]
    /\ pendingSer = << >>
    /\ rSer = << >>
    /\ drained = << >>
    /\ sortIn = << >>
    /\ sortOut = << >>
    /\ fpIn = << >>
    /\ fpOut = << >>
    /\ truncIn = << >>
    /\ truncOut = << >>

mainVars   == << args, mainpc, argIdx >>
exitVars   == << exited, exitCode, stderrLines >>
statusVars == << metaStatus, feedStatus >>
outVars    == << jsonOutput, nLines >>
fpVars     == << fpIn, fpOut >>
truncVars  == << truncIn, truncOut >>
pollerVars == << pc, project, events, idx, inCall >>
queueVars  == << NewOrModifiedEvents, pendingSer >>
checkVars  == << EventChecksumsByID, recorded >>
sharedVars == << locked, queueVars, checkVars, nAppends >>
renderVars == << rEvents, rSer, drained >>
sortVars   == << sortIn, sortOut >>
countVars  == << nDecoded >>

(***************************************************************************)
(* main, lines 191-221                                                     *)
(***************************************************************************)
\* main without the check of len(projectIDsStr)
MainCheckArgsSkipped ==
    /\ ~exited /\ mainpc = "args"
    /\ mainpc' = "range"
    /\ UNCHANGED << args, argIdx, exitVars, pollerVars, sharedVars, renderVars,
                    countVars, sortVars, outVars, fpVars, truncVars, statusVars >>

\* lines 191-195: no positional argument
MainCheckArgs ==
    /\ ~exited /\ mainpc = "args"
    /\ IF Len(args) = 0
       THEN /\ stderrLines' = stderrLines + 1
            /\ exited' = TRUE /\ exitCode' = 1
            /\ UNCHANGED mainpc
       ELSE /\ mainpc' = "range"
            /\ UNCHANGED exitVars
    /\ UNCHANGED << args, argIdx, pollerVars, sharedVars, renderVars, countVars,
                    sortVars, outVars, fpVars, truncVars, statusVars >>

\* the range loop passing over an argument that is no integer
MainRangeArgsSkipsInvalid ==
    /\ ~exited /\ mainpc = "range"
    /\ IF argIdx > Len(args)
       THEN /\ mainpc' = "renderLock"
            /\ UNCHANGED << argIdx, pc, project >>
       ELSE LET parsed == ParseInt(args[argIdx])
            IN  /\ argIdx' = argIdx + 1
                /\ UNCHANGED mainpc
                /\ IF parsed.err
                   THEN UNCHANGED << pc, project >>
                   ELSE /\ pc' = [pc EXCEPT ![argIdx] = "fetchProject"]
                        /\ project' = [project EXCEPT ![argIdx] = [ID |-> parsed.val]]
    /\ UNCHANGED << args, exitVars, events, idx, inCall, sharedVars, renderVars,
                    countVars, sortVars, outVars, fpVars, truncVars, statusVars >>

\* lines 203-221: one iteration of the range loop, or its end
MainRangeArgs ==
    /\ ~exited /\ mainpc = "range"
    /\ IF argIdx > Len(args)
       THEN /\ mainpc' = "renderLock"
            /\ UNCHANGED << argIdx, exitVars, pc, project >>
       ELSE LET parsed == ParseInt(args[argIdx])
            IN  IF parsed.err
                THEN /\ stderrLines' = stderrLines + 1
                     /\ exited' = TRUE /\ exitCode' = 1
                     /\ UNCHANGED << mainpc, argIdx, pc, project >>
                ELSE /\ pc' = [pc EXCEPT ![argIdx] = "fetchProject"]
                     /\ project' = [project EXCEPT ![argIdx] = [ID |-> parsed.val]]
                     /\ argIdx' = argIdx + 1
                     /\ UNCHANGED << mainpc, exitVars >>
    /\ UNCHANGED << args, events, idx, inCall, sharedVars, renderVars,
                    countVars, sortVars, outVars, fpVars, truncVars, statusVars >>

(***************************************************************************)
(* The goroutine of lines 211-220                                          *)
(***************************************************************************)
\* fetchProjectByID returned an error: lines 213-216
FetchProjectByIDFails(p) ==
    /\ ~exited /\ pc[p] = "fetchProject"
    /\ stderrLines' = stderrLines + 1
    /\ exited' = TRUE /\ exitCode' = 1
    /\ UNCHANGED << mainVars, pollerVars, sharedVars, renderVars, countVars,
                    sortVars, outVars, fpVars, truncVars, statusVars >>

\* fetchProjectByID returned the project: lines 212-217; the body was JSON,
\* the status of the response is not looked at (lines 152-168)
FetchProjectByIDOk(p) ==
    /\ ~exited /\ pc[p] = "fetchProject"
    /\ \E status \in StatusesHere : metaStatus' = [metaStatus EXCEPT ![p] = status]
    /\ pc' = [pc EXCEPT ![p] = "watch"]
    /\ UNCHANGED << mainVars, exitVars, project, events, idx, inCall,
                    sharedVars, renderVars, countVars, sortVars, outVars, fpVars, truncVars, feedStatus >>

\* lines 219 and 172: watchProject is called with the project
WatchProject(p) ==
    /\ ~exited /\ pc[p] = "watch"
    /\ metaStatus' = [metaStatus EXCEPT ![p] = 0]
    /\ pc' = [pc EXCEPT ![p] = "fetch"]
    /\ UNCHANGED << mainVars, exitVars, project, events, idx, inCall,
                    sharedVars, renderVars, countVars, sortVars, outVars, fpVars, truncVars, feedStatus >>

(***************************************************************************)
(* fetchProjectEvents, lines 121-146, called from watchProject, line 175   *)
(***************************************************************************)
\* the failure handled as the first version of the program did: log.Fatal
FetchProjectEventsFatal(p) ==
    /\ ~exited /\ pc[p] = "fetch"
    /\ stderrLines' = stderrLines + 1
    /\ exited' = TRUE /\ exitCode' = 1
    /\ UNCHANGED << mainVars, pollerVars, sharedVars, renderVars, countVars,
                    sortVars, outVars, fpVars, truncVars, statusVars >>

\* the failure found after the checksum of a first event was recorded
FetchProjectEventsFailsPartly(p) ==
    /\ ~exited /\ pc[p] = "fetch"
    /\ \E r \in Records :
         EventChecksumsByID' =
             [x \in DOMAIN EventChecksumsByID \cup {r.ID} |->
                 IF x = r.ID THEN HasherSum(Marshal(r)) ELSE EventChecksumsByID[x]]
    /\ pc' = [pc EXCEPT ![p] = "sleepErr"]
    /\ UNCHANGED << mainVars, exitVars, project, events, idx, inCall, locked,
                    queueVars, recorded, nAppends, renderVars, countVars, sortVars, outVars, fpVars, truncVars,
                    statusVars >>

\* http.Get or ioutil.ReadAll failed, or the body is no JSON array; the status
\* of the response is not looked at
FetchProjectEventsFails(p) ==
    /\ ~exited /\ pc[p] = "fetch"
    /\ \E resp \in Responses, status \in StatusesHere :
         resp.err # "none" \/ resp.body.kind # "array"
    /\ pc' = [pc EXCEPT ![p] = "sleepErr"]
    /\ UNCHANGED << mainVars, exitVars, project, events, idx, inCall, sharedVars,
                    renderVars, countVars, sortVars, outVars, fpVars, truncVars, statusVars >>

\* lines 133-142: the decoded events, each with its JSON and its project
DecodeEvents(body, proj) ==
    [i \in 1..Len(body.elems) |-> Decorate(UnmarshalEvent(body.elems[i]), proj)]

\* what a response costs of the bound on the behaviour: an empty array counts
\* as one event, so that the number of addEvents calls is bounded too
Cost(body) == IF Len(body.elems) = 0 THEN 1 ELSE Len(body.elems)

\* the body decoded: lines 133-143, up to the call of addEvents
FetchProjectEventsOk(p) ==
    /\ ~exited /\ pc[p] = "fetch"
    /\ \E resp \in Responses, status \in StatusesHere :
         /\ resp.err = "none" /\ resp.body.kind = "array"
         /\ nDecoded + Cost(resp.body) <= MaxDecoded
         /\ events' = [events EXCEPT ![p] = DecodeEvents(resp.body, project[p])]
         /\ nDecoded' = nDecoded + Cost(resp.body)
         /\ feedStatus' = [feedStatus EXCEPT ![p] = status]
    /\ pc' = [pc EXCEPT ![p] = "addLock"]
    /\ UNCHANGED << mainVars, exitVars, project, idx, inCall, sharedVars, renderVars,
                    sortVars, outVars, fpVars, truncVars, metaStatus >>

(***************************************************************************)
(* addEvents, lines 97-119                                                 *)
(***************************************************************************)
\* addEvents entered without waiting for the mutex
AddEventsLockNoWait(p) ==
    /\ ~exited /\ pc[p] = "addLock"
    /\ locked' = TRUE
    /\ pc' = [pc EXCEPT ![p] = "addLoop"]
    /\ idx' = [idx EXCEPT ![p] = 1]
    /\ feedStatus' = [feedStatus EXCEPT ![p] = 0]
    /\ UNCHANGED << mainVars, exitVars, project, events, inCall,
                    queueVars, checkVars, nAppends,
                    renderVars, countVars, sortVars, outVars, fpVars, truncVars, metaStatus >>

\* line 98
AddEventsLock(p) ==
    /\ ~exited /\ pc[p] = "addLock"
    /\ ~locked
    /\ locked' = TRUE
    /\ pc' = [pc EXCEPT ![p] = "addLoop"]
    /\ idx' = [idx EXCEPT ![p] = 1]
    /\ feedStatus' = [feedStatus EXCEPT ![p] = 0]
    /\ UNCHANGED << mainVars, exitVars, project, events, inCall,
                    queueVars, checkVars, nAppends,
                    renderVars, countVars, sortVars, outVars, fpVars, truncVars, metaStatus >>

\* the stored checksum compared with the JSON instead of its checksum
NewOrModifiedComparesJSON(checksums, event) ==
    \/ event.ID \notin DOMAIN checksums
    \/ ~BytesEqual(event.JSON, checksums[event.ID])

\* line 105 and line 113: the event is new, or its checksum changed
NewOrModified(checksums, event) ==
    LET hash == HasherSum(event.JSON)
    IN  \/ event.ID \notin DOMAIN checksums
        \/ ~BytesEqual(hash, checksums[event.ID])

\* an assignment that only overwrites
MapSetExisting(m, k, v) == [x \in DOMAIN m |-> IF x = k THEN v ELSE m[x]]

\* _EventChecksumsByID[event.ID] = hash
MapSet(m, k, v) == [x \in DOMAIN m \cup {k} |-> IF x = k THEN v ELSE m[x]]

\* lines 102-118: one iteration of the range loop over *events
AddEventsIter(p) ==
    /\ ~exited /\ pc[p] = "addLoop"
    /\ idx[p] <= Len(events[p])
    /\ LET event == events[p][idx[p]]
       IN  IF NewOrModified(EventChecksumsByID, event)
           THEN /\ NewOrModifiedEvents' = Append(NewOrModifiedEvents, event)
                /\ EventChecksumsByID' =
                       MapSet(EventChecksumsByID, event.ID, HasherSum(event.JSON))
                /\ recorded' = MapSet(recorded, event.ID, Fields(event))
                /\ pendingSer' = Append(pendingSer, nAppends + 1)
                /\ nAppends' = nAppends + 1
                /\ inCall' = [inCall EXCEPT ![p] = inCall[p] + 1]
           ELSE UNCHANGED << queueVars, checkVars, nAppends, inCall >>
    /\ idx' = [idx EXCEPT ![p] = idx[p] + 1]
    /\ UNCHANGED << mainVars, exitVars, pc, project, events,
                    locked, renderVars, countVars, sortVars, outVars, fpVars, truncVars, statusVars >>

\* addEvents returning without the Unlock
AddEventsReturnsLocked(p) ==
    /\ ~exited /\ pc[p] = "addLoop"
    /\ idx[p] > Len(events[p])
    /\ pc' = [pc EXCEPT ![p] = "sleepPoll"]
    /\ events' = [events EXCEPT ![p] = << >>]
    /\ idx' = [idx EXCEPT ![p] = 0]
    /\ inCall' = [inCall EXCEPT ![p] = 0]
    /\ UNCHANGED << mainVars, exitVars, project, locked,
                    queueVars, checkVars, nAppends,
                    renderVars, countVars, sortVars, outVars, fpVars, truncVars, statusVars >>

\* addEvents returning before the range loop is over
AddEventsUnlockEarly(p) ==
    /\ ~exited /\ pc[p] = "addLoop"
    /\ locked' = FALSE
    /\ pc' = [pc EXCEPT ![p] = "sleepPoll"]
    /\ events' = [events EXCEPT ![p] = << >>]
    /\ idx' = [idx EXCEPT ![p] = 0]
    /\ inCall' = [inCall EXCEPT ![p] = 0]
    /\ UNCHANGED << mainVars, exitVars, project,
                    queueVars, checkVars, nAppends,
                    renderVars, countVars, sortVars, outVars, fpVars, truncVars, statusVars >>

\* line 99: the deferred Unlock, when the range loop is over
AddEventsUnlock(p) ==
    /\ ~exited /\ pc[p] = "addLoop"
    /\ idx[p] > Len(events[p])
    /\ locked' = FALSE
    /\ pc' = [pc EXCEPT ![p] = "sleepPoll"]
    /\ events' = [events EXCEPT ![p] = << >>]
    /\ idx' = [idx EXCEPT ![p] = 0]
    /\ inCall' = [inCall EXCEPT ![p] = 0]
    /\ UNCHANGED << mainVars, exitVars, project,
                    queueVars, checkVars, nAppends,
                    renderVars, countVars, sortVars, outVars, fpVars, truncVars, statusVars >>

(***************************************************************************)
(* watchProject, lines 171-182                                             *)
(***************************************************************************)
\* how long the poller sleeps at a position of watchProject
WaitOf(at) ==
    CASE at = "sleepErr" -> ErrorDelay [] at = "sleepPoll" -> PollDelay [] OTHER -> 0

\* lines 176-177
SleepAfterError(p) ==
    /\ ~exited /\ pc[p] = "sleepErr"
    /\ pc' = [pc EXCEPT ![p] = "sleepPoll"]
    /\ UNCHANGED << mainVars, exitVars, project, events, idx, inCall,
                    sharedVars, renderVars, countVars, sortVars, outVars, fpVars, truncVars, statusVars >>

\* line 180
SleepBeforePoll(p) ==
    /\ ~exited /\ pc[p] = "sleepPoll"
    /\ pc' = [pc EXCEPT ![p] = "fetch"]
    /\ UNCHANGED << mainVars, exitVars, project, events, idx, inCall,
                    sharedVars, renderVars, countVars, sortVars, outVars, fpVars, truncVars, statusVars >>

(***************************************************************************)
(* The render loop of main, lines 225-263                                  *)
(***************************************************************************)
\* the render loop entered without waiting for the mutex
RenderLockNoWait ==
    /\ ~exited /\ mainpc = "renderLock"
    /\ locked' = TRUE
    /\ mainpc' = "renderCopy"
    /\ UNCHANGED << args, argIdx, exitVars, pollerVars, queueVars,
                    checkVars, nAppends, renderVars, countVars, sortVars, outVars, fpVars, truncVars, statusVars >>

\* line 226
RenderLock ==
    /\ ~exited /\ mainpc = "renderLock"
    /\ ~locked
    /\ locked' = TRUE
    /\ mainpc' = "renderCopy"
    /\ UNCHANGED << args, argIdx, exitVars, pollerVars, queueVars,
                    checkVars, nAppends, renderVars, countVars, sortVars, outVars, fpVars, truncVars, statusVars >>

\* the copy that takes nothing of the queue
RenderCopyNothing ==
    /\ ~exited /\ mainpc = "renderCopy"
    /\ rEvents' = << >>
    /\ rSer' = << >>
    /\ mainpc' = "renderClear"
    /\ UNCHANGED << args, argIdx, exitVars, pollerVars, sharedVars, drained,
                    countVars, sortVars, outVars, fpVars, truncVars, statusVars >>

\* lines 227-229
RenderCopy ==
    /\ ~exited /\ mainpc = "renderCopy"
    /\ rEvents' = NewOrModifiedEvents
    /\ rSer' = pendingSer
    /\ mainpc' = "renderClear"
    /\ UNCHANGED << args, argIdx, exitVars, pollerVars, sharedVars, drained,
                    countVars, sortVars, outVars, fpVars, truncVars, statusVars >>

\* the drain leaving the queue as it is
RenderClearKeepsQueue ==
    /\ ~exited /\ mainpc = "renderClear"
    /\ drained' = drained \o rSer
    /\ rSer' = << >>
    /\ locked' = FALSE
    /\ mainpc' = "renderSort"
    /\ UNCHANGED << args, argIdx, exitVars, pollerVars, queueVars, checkVars,
                    nAppends, rEvents, countVars, sortVars, outVars, fpVars, truncVars, statusVars >>

\* the drain forgetting the checksums as well
RenderClearForgets ==
    /\ ~exited /\ mainpc = "renderClear"
    /\ NewOrModifiedEvents' = << >>
    /\ EventChecksumsByID' = << >>
    /\ pendingSer' = << >>
    /\ drained' = drained \o rSer
    /\ rSer' = << >>
    /\ locked' = FALSE
    /\ mainpc' = "renderSort"
    /\ UNCHANGED << args, argIdx, exitVars, pollerVars, recorded,
                    nAppends, rEvents, countVars, sortVars, outVars, fpVars, truncVars, statusVars >>

\* lines 230-231
RenderClear ==
    /\ ~exited /\ mainpc = "renderClear"
    /\ NewOrModifiedEvents' = << >>
    /\ pendingSer' = << >>
    /\ drained' = drained \o rSer
    /\ rSer' = << >>
    /\ locked' = FALSE
    /\ mainpc' = "renderSort"
    /\ UNCHANGED << args, argIdx, exitVars, pollerVars, checkVars,
                    nAppends, rEvents, countVars, sortVars, outVars, fpVars, truncVars, statusVars >>

\* line 232
RenderSort ==
    /\ ~exited /\ mainpc = "renderSort"
    /\ rEvents' \in SortSlice(rEvents)
    /\ mainpc' = "renderPrint"
    /\ UNCHANGED << args, argIdx, exitVars, pollerVars, sharedVars, rSer,
                    drained, countVars, sortVars, outVars, fpVars, truncVars, statusVars >>

\* line 236: fmt.Println(string(event.JSON)); json.Marshal escapes the line
\* breaks of the strings, so the output is one line
JSONLines(event) == << [kind |-> "json", text |-> event.JSON] >>

\* lines 241-260: eventTemplate (40-49) executed on an event that is neither a
\* note nor a push: a line break, the line of the event, a line break
TemplateLines(event) ==
    << [kind |-> "blank", text |-> << >>],
       [kind |-> "event",
        text |-> << <<"ProjectPathWithNamespace", event.Project.ID>>,
                    <<"CreatedAt", event.CreatedAt>>,
                    <<"TargetTitle", event.TargetTitle>> >>] >>

RECURSIVE PrintAlwaysTemplate(_, _), PrintEvents(_, _)

\* the block written for every event in either mode
PrintAlwaysTemplate(evs, json) ==
    IF evs = << >> THEN << >>
    ELSE TemplateLines(evs[1]) \o PrintAlwaysTemplate(Tail(evs), json)

\* lines 234-261: the range loop over events
PrintEvents(evs, json) ==
    IF evs = << >> THEN << >>
    ELSE (IF json THEN JSONLines(evs[1]) ELSE TemplateLines(evs[1]))
         \o PrintEvents(Tail(evs), json)

\* lines 234-262: one block or one line per event, in the order of the slice,
\* then a second of sleep; the scope of `events` ends
RenderPrint ==
    /\ ~exited /\ mainpc = "renderPrint"
    /\ nLines' = nLines + Len(PrintEvents(rEvents, jsonOutput))
    /\ rEvents' = << >>
    /\ mainpc' = "renderLock"
    /\ UNCHANGED << args, argIdx, exitVars, pollerVars, sharedVars, rSer, drained,
                    countVars, sortVars, jsonOutput, statusVars, fpVars, truncVars >>

Next ==
    \/ MainCheckArgs
    \/ MainRangeArgs
    \/ \E p \in Pollers : FetchProjectByIDFails(p)
    \/ \E p \in Pollers : FetchProjectByIDOk(p)
    \/ \E p \in Pollers : WatchProject(p)
    \/ \E p \in Pollers : FetchProjectEventsFails(p)
    \/ \E p \in Pollers : FetchProjectEventsOk(p)
    \/ \E p \in Pollers : AddEventsLock(p)
    \/ \E p \in Pollers : AddEventsIter(p)
    \/ \E p \in Pollers : AddEventsUnlock(p)
    \/ \E p \in Pollers : SleepAfterError(p)
    \/ \E p \in Pollers : SleepBeforePoll(p)
    \/ RenderLock
    \/ RenderCopy
    \/ RenderClear
    \/ RenderSort
    \/ RenderPrint

Spec == Init /\ [][Next]_vars

\* the steps of the goroutine of poller p: lines 211-220, then watchProject
PollerNext(p) ==
    \/ FetchProjectByIDFails(p)
    \/ FetchProjectByIDOk(p)
    \/ WatchProject(p)
    \/ FetchProjectEventsFails(p)
    \/ FetchProjectEventsOk(p)
    \/ AddEventsLock(p)
    \/ AddEventsIter(p)
    \/ AddEventsUnlock(p)
    \/ SleepAfterError(p)
    \/ SleepBeforePoll(p)

(***************************************************************************)
(* Scheduling: a goroutine that sleeps wakes up when its time has passed   *)
(***************************************************************************)
FairSpec ==
    /\ Spec
    /\ \A p \in Pollers : WF_vars(SleepAfterError(p) \/ SleepBeforePoll(p))

\* the main goroutine is scheduled: it gets through its checks of the arguments
FairMainSpec ==
    /\ Spec
    /\ WF_vars(MainCheckArgs)
    /\ WF_vars(MainRangeArgs)

\* the main goroutine is scheduled, a Lock of _EventsMutex that is tried again
\* and again succeeds (sync.Mutex hands the mutex to a waiter that starves),
\* and a goroutine inside addEvents runs on to its Unlock
FairRenderSpec ==
    /\ Spec
    /\ WF_vars(MainCheckArgs \/ MainRangeArgs)
    /\ SF_vars(RenderLock)
    /\ WF_vars(RenderCopy \/ RenderClear \/ RenderSort \/ RenderPrint)
    /\ \A p \in Pollers : WF_vars(AddEventsIter(p) \/ AddEventsUnlock(p))

\* the goroutines that contend for _EventsMutex: a Lock that is tried again
\* and again succeeds, and the goroutine that holds the mutex runs on to its
\* Unlock; nothing is assumed of the fetches and the sleeps
FairMutexSpec ==
    /\ Spec
    /\ SF_vars(RenderLock)
    /\ WF_vars(RenderCopy \/ RenderClear)
    /\ \A p \in Pollers : SF_vars(AddEventsLock(p))
    /\ \A p \in Pollers : WF_vars(AddEventsIter(p) \/ AddEventsUnlock(p))

\* the command line `gitlab-events 1 1`: two pollers of one project
SameProjectInit ==
    /\ args = << <<"1">>, <<"1">> >>
    /\ jsonOutput = FALSE
    /\ mainpc = "args"
    /\ argIdx = 1
    /\ exited = FALSE
    /\ exitCode = 0
    /\ stderrLines = 0
    /\ pc = [p \in Pollers |-> "unborn"]
    /\ project = [p \in Pollers |-> NoProject]
    /\ events = [p \in Pollers |-> << >>]
    /\ idx = [p \in Pollers |-> 0]
    /\ locked = FALSE
    /\ NewOrModifiedEvents = << >>
    /\ EventChecksumsByID = << >>
    /\ rEvents = << >>
    /\ nLines = 0
    /\ metaStatus = [p \in Pollers |-> 0]
    /\ feedStatus = [p \in Pollers |-> 0]
    /\ recorded = << >>
    /\ nDecoded = 0
    /\ nAppends = 0
    /\ inCall = [p \in Pollers |-> 0]
    /\ pendingSer = << >>
    /\ rSer = << >>
    /\ drained = << >>
    /\ sortIn = << >>
    /\ sortOut = << >>
    /\ fpIn = << >>
    /\ fpOut = << >>
    /\ truncIn = << >>
    /\ truncOut = << >>

SameProjectSpec == SameProjectInit /\ [][Next]_vars

(***************************************************************************)
(* sort.Slice alone, on slices of up to SortMaxLen events; the identity of *)
(* an event is its position in the slice handed to the sort                *)
(***************************************************************************)
RECURSIVE SortInputs(_)
SortInputs(n) ==
    IF n = 0 THEN { << >> }
    ELSE SortInputs(n - 1)
         \cup { Append(s, [ID |-> n, CreatedAt |-> t]) :
                    s \in { x \in SortInputs(n - 1) : Len(x) = n - 1 }, t \in Timestamps }

SortInit ==
    /\ args = << >>
    /\ jsonOutput = FALSE
    /\ mainpc = "renderSort"
    /\ argIdx = 1
    /\ exited = FALSE
    /\ exitCode = 0
    /\ stderrLines = 0
    /\ pc = [p \in Pollers |-> "unborn"]
    /\ project = [p \in Pollers |-> NoProject]
    /\ events = [p \in Pollers |-> << >>]
    /\ idx = [p \in Pollers |-> 0]
    /\ locked = FALSE
    /\ NewOrModifiedEvents = << >>
    /\ EventChecksumsByID = << >>
    /\ rEvents = << >>
    /\ nLines = 0
    /\ metaStatus = [p \in Pollers |-> 0]
    /\ feedStatus = [p \in Pollers |-> 0]
    /\ recorded = << >>
    /\ nDecoded = 0
    /\ nAppends = 0
    /\ inCall = [p \in Pollers |-> 0]
    /\ pendingSer = << >>
    /\ rSer = << >>
    /\ drained = << >>
    /\ sortIn \in SortInputs(SortMaxLen)
    /\ sortOut = << >>
    /\ fpIn = << >>
    /\ fpOut = << >>
    /\ truncIn = << >>
    /\ truncOut = << >>

\* line 232 on the slice sortIn
SortApply ==
    /\ sortIn # << >> /\ sortOut = << >>
    /\ sortOut' \in SortSlice(sortIn)
    /\ UNCHANGED << mainVars, exitVars, pollerVars, sharedVars, renderVars, countVars,
                    sortIn, statusVars, outVars, fpVars, truncVars >>

SortNext == SortApply

SortSpec == SortInit /\ [][SortNext]_vars

(***************************************************************************)
(* Two objects of the feed, fetched one after the other, on their own      *)
(***************************************************************************)
\* the objects the feed can hold for the records of the model
WireObjects == { WireObject(r, rev, ex) : r \in Records, rev \in BOOLEAN, ex \in BOOLEAN }

\* the checksum of the object as it was received
ChecksumOfBody(obj) == HasherSum(obj)

\* lines 133-141 and line 103: the object decoded into an Event, the Event
\* marshalled into event.JSON, and the checksum of event.JSON
Checksum(obj) == HasherSum(Decorate(UnmarshalEvent(obj), NoProject).JSON)

FingerprintInit ==
    /\ args = << >>
    /\ jsonOutput = FALSE
    /\ mainpc = "render"
    /\ argIdx = 1
    /\ exited = FALSE
    /\ exitCode = 0
    /\ stderrLines = 0
    /\ pc = [p \in Pollers |-> "unborn"]
    /\ project = [p \in Pollers |-> NoProject]
    /\ events = [p \in Pollers |-> << >>]
    /\ idx = [p \in Pollers |-> 0]
    /\ locked = FALSE
    /\ NewOrModifiedEvents = << >>
    /\ EventChecksumsByID = << >>
    /\ rEvents = << >>
    /\ nLines = 0
    /\ metaStatus = [p \in Pollers |-> 0]
    /\ feedStatus = [p \in Pollers |-> 0]
    /\ recorded = << >>
    /\ nDecoded = 0
    /\ nAppends = 0
    /\ inCall = [p \in Pollers |-> 0]
    /\ pendingSer = << >>
    /\ rSer = << >>
    /\ drained = << >>
    /\ sortIn = << >>
    /\ sortOut = << >>
    /\ fpIn \in WireObjects \X WireObjects
    /\ fpOut = << >>
    /\ truncIn = << >>
    /\ truncOut = << >>

\* the first object goes through lines 103-110 on an empty map, the second
\* through lines 103-113 on the map the first one left: the two checksums,
\* and whether the second event is new or modified
FingerprintApply ==
    /\ fpIn # << >> /\ fpOut = << >>
    /\ LET first     == Decorate(UnmarshalEvent(fpIn[1]), NoProject)
           second    == Decorate(UnmarshalEvent(fpIn[2]), NoProject)
           checksums == MapSet(<< >>, first.ID, Checksum(fpIn[1]))
       IN  fpOut' = << Checksum(fpIn[1]), Checksum(fpIn[2]),
                       NewOrModified(checksums, second) >>
    /\ UNCHANGED << mainVars, exitVars, pollerVars, sharedVars, renderVars, countVars,
                    sortVars, statusVars, outVars, fpIn, truncVars >>

FingerprintNext == FingerprintApply

FingerprintSpec == FingerprintInit /\ [][FingerprintNext]_vars

(***************************************************************************)
(* truncateString, lines 52-59, on its own                                 *)
(***************************************************************************)
\* the bytes of the texts; an escape sequence counts as one element
TextBytes  == { "a", "b" }
GrayColor  == << "ESC[38;5;250m" >>
ResetColor == << "ESC[0m" >>
Dots       == << ".", ".", "." >>

\* the text of n bytes
LongText(n) == [i \in 1..n |-> IF i % 2 = 1 THEN "a" ELSE "b"]

\* every short text, and texts just below, at and just above the two limits
\* of the template
Texts ==
    UNION { [1..n -> TextBytes] : n \in 0..MaxShortLen }
    \cup { LongText(n) : n \in { TitleMax - 1, TitleMax, TitleMax + 1,
                                 BodyMax - 1, BodyMax, BodyMax + 1 } }

\* the values of maxLen: small ones, and the two of the template
MaxLens == 0..MaxShortLen \cup { TitleMax, BodyMax }

\* the text kept only when it is shorter than maxLen
truncateStringStrict(s, maxLen) ==
    LET length == Len(s)
    IN  IF length < maxLen THEN s
        ELSE SubSeq(s, 1, maxLen) \o GrayColor \o Dots \o ResetColor

\* lines 52-59; s[:maxLen] is the first maxLen bytes of s
truncateString(s, maxLen) ==
    LET length == Len(s)
    IN  IF length <= maxLen THEN s
        ELSE SubSeq(s, 1, maxLen) \o GrayColor \o Dots \o ResetColor

\* line 41, {{trunc .TargetTitle 100}}, and line 43, {{trunc .Body 400}}
TruncTitle(title) == truncateString(title, TitleMax)
TruncBody(body)   == truncateString(body, BodyMax)

TruncInit ==
    /\ args = << >>
    /\ jsonOutput = FALSE
    /\ mainpc = "renderPrint"
    /\ argIdx = 1
    /\ exited = FALSE
    /\ exitCode = 0
    /\ stderrLines = 0
    /\ pc = [p \in Pollers |-> "unborn"]
    /\ project = [p \in Pollers |-> NoProject]
    /\ events = [p \in Pollers |-> << >>]
    /\ idx = [p \in Pollers |-> 0]
    /\ locked = FALSE
    /\ NewOrModifiedEvents = << >>
    /\ EventChecksumsByID = << >>
    /\ rEvents = << >>
    /\ nLines = 0
    /\ metaStatus = [p \in Pollers |-> 0]
    /\ feedStatus = [p \in Pollers |-> 0]
    /\ recorded = << >>
    /\ nDecoded = 0
    /\ nAppends = 0
    /\ inCall = [p \in Pollers |-> 0]
    /\ pendingSer = << >>
    /\ rSer = << >>
    /\ drained = << >>
    /\ sortIn = << >>
    /\ sortOut = << >>
    /\ fpIn = << >>
    /\ fpOut = << >>
    /\ truncIn \in { [s |-> t, maxLen |-> m] : t \in Texts, m \in MaxLens }
    /\ truncOut = << >>

\* one call; the result is kept as the only element of truncOut
TruncApply ==
    /\ truncIn # << >> /\ truncOut = << >>
    /\ truncOut' = << truncateString(truncIn.s, truncIn.maxLen) >>
    /\ UNCHANGED << mainVars, exitVars, pollerVars, sharedVars, renderVars, countVars,
                    sortVars, statusVars, outVars, fpVars, truncIn >>

TruncNext == TruncApply

TruncSpec == TruncInit /\ [][TruncNext]_vars

(***************************************************************************)
(* Properties                                                              *)
(***************************************************************************)
\* poller p runs one iteration of the range loop of addEvents in this step
Iterates(p) == pc[p] = "addLoop" /\ idx[p] <= Len(events[p]) /\ idx'[p] = idx[p] + 1

\* the event the next iteration of p is about
Current(p) == events[p][idx[p]]

Known(e) == e.ID \in DOMAIN recorded

OthersKept(id) ==
    \A i \in DOMAIN EventChecksumsByID \ {id} :
        i \in DOMAIN EventChecksumsByID' /\ EventChecksumsByID'[i] = EventChecksumsByID[i]

\* C1: an event whose identity has a checksum taken of the same field values
\* is unchanged: the iteration of addEvents on it appends nothing to the
\* queue and leaves the checksums as they were.
C1_UnchangedNotAppended ==
    [][\A p \in Pollers :
          (Iterates(p) /\ Known(Current(p))
             /\ Fields(Current(p)) = recorded[Current(p).ID])
          => /\ NewOrModifiedEvents' = NewOrModifiedEvents
             /\ EventChecksumsByID' = EventChecksumsByID]_vars

\* a second fetch returned an event with the fields its checksum was taken of
C1_Witness ==
    \E p \in Pollers :
        /\ pc[p] = "addLoop" /\ idx[p] = 2 /\ Len(events[p]) >= 1
        /\ Known(events[p][1]) /\ Fields(events[p][1]) = recorded[events[p][1].ID]
        /\ nDecoded = 2 /\ nAppends = 1 /\ inCall[p] = 0

\* C2: an event whose identity has a checksum taken of other field values is
\* updated: the iteration of addEvents on it overwrites the checksum of that
\* identity with the checksum of the event and appends the event once.
C2_UpdatedAppendedOnce ==
    [][\A p \in Pollers :
          (Iterates(p) /\ Known(Current(p))
             /\ Fields(Current(p)) # recorded[Current(p).ID])
          => /\ NewOrModifiedEvents' = Append(NewOrModifiedEvents, Current(p))
             /\ EventChecksumsByID'[Current(p).ID] = HasherSum(Current(p).JSON)
             /\ EventChecksumsByID'[Current(p).ID] # EventChecksumsByID[Current(p).ID]
             /\ DOMAIN EventChecksumsByID' = DOMAIN EventChecksumsByID
             /\ OthersKept(Current(p).ID)]_vars

\* a second fetch returned a known identity with a changed field, and addEvents
\* has appended it
C2_Witness ==
    \E p \in Pollers :
        /\ pc[p] = "addLoop" /\ idx[p] = 2 /\ inCall[p] = 1
        /\ nAppends = 2 /\ nDecoded = 2 /\ Len(events[p]) = 1
        /\ Cardinality(DOMAIN EventChecksumsByID) = 1
        /\ recorded[events[p][1].ID] = Fields(events[p][1])

\* C3: an event whose identity has no checksum is new: the iteration of
\* addEvents on it inserts its checksum and appends the event once.
C3_NewInsertedAndAppended ==
    [][\A p \in Pollers :
          (Iterates(p) /\ Current(p).ID \notin DOMAIN EventChecksumsByID)
          => /\ NewOrModifiedEvents' = Append(NewOrModifiedEvents, Current(p))
             /\ DOMAIN EventChecksumsByID' =
                    DOMAIN EventChecksumsByID \cup {Current(p).ID}
             /\ EventChecksumsByID'[Current(p).ID] = HasherSum(Current(p).JSON)
             /\ OthersKept(Current(p).ID)]_vars

\* the first event of an identity has been appended and its checksum inserted
C3_Witness ==
    \E p \in Pollers :
        /\ pc[p] = "addLoop" /\ idx[p] = 2 /\ inCall[p] = 1 /\ nAppends = 1
        /\ DOMAIN EventChecksumsByID = {events[p][1].ID}
        /\ NewOrModifiedEvents = << events[p][1] >>

FirstN(n) == [i \in 1..n |-> i]

\* C4: every append is drained once: the appends drained so far, followed by
\* the ones in the queue, are the appends made so far, each once and in order.
C4_NothingLostOrDuplicated ==
    /\ drained \o pendingSer = FirstN(nAppends)
    /\ Len(NewOrModifiedEvents) = Len(pendingSer)

\* two pollers have each appended an event and the render loop has drained both
C4_Witness ==
    /\ mainpc = "renderSort" /\ drained = << 1, 2 >> /\ NewOrModifiedEvents = << >>
    /\ Len(rEvents) = 2 /\ rEvents[1].Project # rEvents[2].Project

\* the rest of p's batch holds an event that addEvents will append
MoreToAppend(p) ==
    \E i \in idx[p]..Len(events[p]) : NewOrModified(EventChecksumsByID, events[p][i])

\* C5: the render loop never copies the queue between two appends of one
\* addEvents call, so that a drain holds all the appends of a call or none.
C5_AppendAtomicForDrain ==
    [][(mainpc = "renderCopy" /\ mainpc' = "renderClear")
          => \A p \in Pollers :
                ~(pc[p] = "addLoop" /\ inCall[p] > 0 /\ MoreToAppend(p))]_vars

\* a drain has taken the two appends of one addEvents call
C5_Witness ==
    /\ mainpc = "renderClear" /\ Len(rEvents) = 2
    /\ rEvents[1].Project = rEvents[2].Project
    /\ nDecoded = 2 /\ \A p \in Pollers : pc[p] # "addLoop"

\* the goroutines between Lock and Unlock of _EventsMutex
Holders ==
    { p \in Pollers : pc[p] = "addLoop" }
    \cup (IF mainpc \in {"renderCopy", "renderClear"} THEN {0} ELSE {})

OneHolder == Cardinality(Holders) <= 1 /\ (Holders # {} => locked)

\* C6: at most one goroutine is between Lock and Unlock, the mutex is locked
\* then, and the queue and the checksums change only in a step of the holder.
C6_AccessUnderMutex ==
    /\ []OneHolder
    /\ [][(NewOrModifiedEvents' # NewOrModifiedEvents
             \/ EventChecksumsByID' # EventChecksumsByID)
          => /\ locked /\ Cardinality(Holders) = 1
             /\ \/ \E p \in Holders \ {0} : idx'[p] # idx[p]
                \/ 0 \in Holders /\ mainpc' # mainpc]_vars

\* a poller waits for the mutex while the render loop holds it with a queue
\* that is not empty
C6_Witness ==
    /\ mainpc = "renderCopy" /\ locked /\ NewOrModifiedEvents # << >>
    /\ \E p \in Pollers : pc[p] = "addLock"

NonDecreasing(s) ==
    \A i, j \in 1..Len(s) : i < j => ~StringLess(s[j].CreatedAt, s[i].CreatedAt)

\* C7: the events a render cycle prints are in non-decreasing order of
\* created_at.
C7_PrintedInTimeOrder == mainpc = "renderPrint" => NonDecreasing(rEvents)

\* a cycle is about to print two events of different times, drained together
C7_Witness ==
    /\ mainpc = "renderPrint" /\ Len(rEvents) = 2
    /\ StringLess(rEvents[1].CreatedAt, rEvents[2].CreatedAt)
    /\ rEvents[1].Project # rEvents[2].Project

\* the place of the event with identity id in the slice s
PlaceOf(s, id) == CHOOSE i \in 1..Len(s) : s[i].ID = id

\* C8: events of equal created_at leave the sort in the order they entered it.
C8_SortIsStable ==
    \A i, j \in 1..Len(sortOut) :
        (i < j /\ sortOut[i].CreatedAt = sortOut[j].CreatedAt)
        => PlaceOf(sortIn, sortOut[i].ID) < PlaceOf(sortIn, sortOut[j].ID)

\* C9: a fetch of the feed that fails does not end the process (the process
\* ends only in main's checks of the arguments or when the fetch of a project
\* fails), and the poller, once in the delay after the failure, fetches again
\* unless the process was ended so.
C9_FailedFetchIsRetried ==
    /\ [][(~exited /\ exited')
             => \/ mainpc \in {"args", "range"}
                \/ \E p \in Pollers : pc[p] = "fetchProject"]_vars
    /\ \A p \in Pollers : (pc[p] = "sleepErr") ~> (pc[p] = "fetch" \/ exited)

\* a fetch failed after an earlier fetch of the same process succeeded
C9_Witness ==
    \E p \in Pollers : pc[p] = "sleepErr" /\ ~exited /\ nDecoded > 0

\* C10: when the delay after a failed fetch is over, the poller fetches again
\* without another wait.
C10_OnlyShortDelayBeforeRetry ==
    [][\A p \in Pollers :
          (pc[p] = "sleepErr" /\ pc'[p] # pc[p]) => WaitOf(pc'[p]) = 0]_vars

\* C11: a response whose status is not 2xx is a failed fetch: addEvents is not
\* entered with an event decoded from such a response that it will record and
\* append, and watchProject is not entered with a project decoded from such a
\* response.
C11_NonOkStatusIsFailure ==
    [][\A p \in Pollers :
          /\ (pc[p] = "addLock" /\ pc'[p] = "addLoop"
                /\ \E i \in 1..Len(events[p]) :
                       NewOrModified(EventChecksumsByID, events[p][i]))
                => feedStatus[p] \in 200..299
          /\ (pc[p] = "watch" /\ pc'[p] = "fetch") => metaStatus[p] \in 200..299]_vars

\* C12: a failure of the fetch of a project's metadata does not end the
\* process: the process ends only in main's checks of the arguments.
C12_MetadataFailureNotFatal ==
    [][(~exited /\ exited')
          => \/ mainpc = "args" /\ Len(args) = 0
             \/ /\ mainpc = "range" /\ argIdx <= Len(args)
                /\ ParseInt(args[argIdx]).err]_vars

\* C13: the queue never holds two events of one identity.
C13_OneQueuedPerIdentity ==
    \A i, j \in 1..Len(NewOrModifiedEvents) :
        i # j => NewOrModifiedEvents[i].ID # NewOrModifiedEvents[j].ID

\* C14: a fetch of the feed that fails leaves the queue and the checksums as
\* they were, and addEvents is entered only from a fetch that decoded its
\* whole body.
C14_FailedFetchLeavesState ==
    [][\A p \in Pollers :
          /\ (pc[p] = "fetch" /\ pc'[p] = "sleepErr")
                => UNCHANGED << NewOrModifiedEvents, EventChecksumsByID >>
          /\ (pc[p] # "addLock" /\ pc'[p] = "addLock")
                => pc[p] = "fetch" /\ nDecoded' > nDecoded]_vars

\* a fetch has failed with events in the queue and checksums recorded
C14_Witness ==
    \E p \in Pollers :
        /\ pc[p] = "sleepErr"
        /\ NewOrModifiedEvents # << >> /\ EventChecksumsByID # << >>

\* C15: an identity that has a checksum keeps having one: no step removes an
\* entry of the checksums.
C15_SeenSetGrows ==
    [][DOMAIN EventChecksumsByID \subseteq DOMAIN EventChecksumsByID']_vars

\* the render loop has drained while both identities have checksums
C15_Witness ==
    /\ mainpc = "renderSort" /\ drained # << >>
    /\ DOMAIN EventChecksumsByID = IDs

\* C16: without a positional argument the process exits with a status that is
\* not zero after one line on stderr; no goroutine was started for a project
\* and nothing was fetched.
C16_NoArgumentExits ==
    /\ [](Len(args) = 0
            => /\ mainpc = "args"
               /\ \A p \in Pollers : pc[p] = "unborn"
               /\ nDecoded = 0
               /\ stderrLines = (IF exited THEN 1 ELSE 0)
               /\ exited => exitCode # 0)
    /\ (Len(args) = 0) ~> exited

\* the process has exited for want of an argument
C16_Witness == Len(args) = 0 /\ exited /\ exitCode = 1 /\ stderrLines = 1

\* some positional argument is no integer
HasInvalidArg == \E i \in 1..Len(args) : ParseInt(args[i]).err

\* C17: with a positional argument that is no valid integer the process exits
\* with a status that is not zero, and main never gets to the render loop.
C17_InvalidArgumentExits ==
    /\ [](HasInvalidArg
            => /\ mainpc \in {"args", "range"}
               /\ exited => exitCode # 0)
    /\ HasInvalidArg ~> exited

\* main has exited at its second argument while the first project is watched
C17_Witness ==
    /\ exited /\ exitCode = 1 /\ mainpc = "range" /\ argIdx = 2
    /\ Len(args) >= 2 /\ ParseInt(args[2]).err
    /\ pc[1] \notin {"unborn", "fetchProject"}

\* the events the render loop has copied and cleared from the queue but not
\* printed yet
InFlight == IF mainpc \in {"renderSort", "renderPrint"} THEN Len(rEvents) ELSE 0

\* the events printed so far: the appends that are neither queued nor in flight
Printed == nAppends - Len(NewOrModifiedEvents) - InFlight

\* C18: with --json every drained event is printed as one line that holds its
\* JSON, and nothing else is printed: the lines written so far are as many as
\* the events appended and printed so far.
C18_JSONOneLinePerEvent ==
    jsonOutput
    => /\ nLines = Printed
       /\ mainpc = "renderPrint"
            => PrintEvents(rEvents, jsonOutput)
                 = [i \in 1..Len(rEvents) |-> [kind |-> "json", text |-> rEvents[i].JSON]]

\* with --json two pollers have each fetched one new event, and the two lines
\* of these events have been written
C18_Witness ==
    /\ jsonOutput /\ mainpc = "renderLock" /\ nLines = 2 /\ nAppends = 2
    /\ nDecoded = 2 /\ pc[1] = "sleepPoll" /\ pc[2] = "sleepPoll"

SameFields(a, b) ==
    /\ Len(a) = Len(b)
    /\ \A i \in 1..Len(a) : \E j \in 1..Len(b) : a[i][1] = b[j][1] /\ a[i][2] = b[j][2]
    /\ \A j \in 1..Len(b) : \E i \in 1..Len(a) : a[i][1] = b[j][1] /\ a[i][2] = b[j][2]

\* C20: two fetches of one record whose objects hold the same field values,
\* the keys in whatever order, give equal checksums, and the event of the
\* second fetch is neither new nor modified
C20_KeyOrderIrrelevant ==
    (fpOut # << >> /\ SameFields(fpIn[1], fpIn[2]))
        => (BytesEqual(fpOut[1], fpOut[2]) /\ ~fpOut[3])

\* the checksums were computed for two objects with the same pairs, the keys
\* in a different order
C20_Witness ==
    /\ fpOut # << >>
    /\ SameFields(fpIn[1], fpIn[2])
    /\ \E i \in 1..Len(fpIn[1]) : fpIn[1][i][1] # fpIn[2][i][1]
    /\ BytesEqual(fpOut[1], fpOut[2])

\* the number of bytes of a rendered text that are bytes of the original text
OriginalBytes(out) == Len(SelectSeq(out, LAMBDA b : b \in TextBytes))

\* C21: truncateString(s, maxLen) returns s when s has at most maxLen bytes,
\* and otherwise the first maxLen bytes of s followed by the ellipsis marker;
\* the rendered title keeps at most 100 bytes of the text, the rendered body
\* at most 400.
C21_TruncateString ==
    truncOut # << >> =>
        LET s      == truncIn.s
            maxLen == truncIn.maxLen
            out    == truncOut[1]
        IN  /\ Len(s) <= maxLen => out = s
            /\ Len(s) > maxLen =>
                   out = SubSeq(s, 1, maxLen) \o GrayColor \o Dots \o ResetColor
            /\ OriginalBytes(TruncTitle(s)) <= TitleMax
            /\ OriginalBytes(TruncBody(s)) <= BodyMax
            /\ maxLen = TitleMax => out = TruncTitle(s)
            /\ maxLen = BodyMax => out = TruncBody(s)

\* a title of more than 100 bytes has been truncated, and a text of exactly
\* as many bytes as the limit is returned as it is
C21_Witness ==
    /\ truncOut # << >>
    /\ \/ truncIn.maxLen = TitleMax /\ Len(truncIn.s) = TitleMax + 1
          /\ Len(truncOut[1]) = TitleMax + Len(GrayColor \o Dots \o ResetColor)
       \/ truncIn.maxLen = BodyMax /\ Len(truncIn.s) = BodyMax
          /\ truncOut[1] = truncIn.s

\* C22: after a successful fetch the poller runs the range loop of addEvents
\* over every event of the batch, in order, then sleeps the poll delay once,
\* then fetches again; the delay after an error is entered from a fetch only;
\* and a poller that has been started and is not waiting for the mutex always
\* has a next step while the process runs.
C22_SuccessPath ==
    /\ [][\A p \in Pollers :
            /\ (pc[p] = "fetch" /\ pc'[p] # pc[p]) => pc'[p] \in {"addLock", "sleepErr"}
            /\ (pc[p] = "addLock" /\ pc'[p] # pc[p]) => (pc'[p] = "addLoop" /\ idx'[p] = 1)
            /\ (pc[p] = "addLoop" /\ pc'[p] = pc[p] /\ idx'[p] # idx[p])
                  => (idx[p] <= Len(events[p]) /\ idx'[p] = idx[p] + 1)
            /\ (pc[p] = "addLoop" /\ pc'[p] # pc[p])
                  => /\ idx[p] = Len(events[p]) + 1
                     /\ pc'[p] = "sleepPoll" /\ WaitOf(pc'[p]) = PollDelay
            /\ (pc[p] = "sleepPoll" /\ pc'[p] # pc[p])
                  => (pc'[p] = "fetch" /\ WaitOf(pc'[p]) = 0)
            /\ (pc'[p] = "sleepErr" /\ pc[p] # pc'[p]) => pc[p] = "fetch"]_vars
    /\ [](\A p \in Pollers :
            (~exited /\ pc[p] # "unborn" /\ ~(pc[p] = "addLock" /\ locked))
                => ENABLED PollerNext(p))

\* the only poller is back at its fetch after a round in which addEvents went
\* over a batch of two events
C22_Witness ==
    /\ Len(args) = 1 /\ pc[1] = "fetch" /\ ~exited
    /\ nAppends = 2 /\ nDecoded = 2

\* C23: the events of a project are classified without regard to the events
\* of other projects: as long as nothing has been drained, the queue holds
\* every event ever appended, so an event whose project has no event of the
\* same identity in the queue has not been seen for that project, and the
\* iteration of addEvents on it appends it.
C23_ClassifiedPerProject ==
    [][\A p \in Pollers :
          (/\ Iterates(p)
           /\ nAppends = Len(NewOrModifiedEvents)
           /\ ~\E i \in 1..Len(NewOrModifiedEvents) :
                  /\ NewOrModifiedEvents[i].Project = Current(p).Project
                  /\ NewOrModifiedEvents[i].ID = Current(p).ID)
          => NewOrModifiedEvents' = Append(NewOrModifiedEvents, Current(p))]_vars

\* C24: when main exits at an argument that is no integer, whatever the place
\* of that argument, no poller has been started and no feed has been decoded.
C24_NoPollerBeforeExit ==
    [][(/\ ~exited /\ exited'
        /\ mainpc = "range" /\ argIdx <= Len(args)
        /\ ParseInt(args[argIdx]).err)
          => /\ \A p \in Pollers : pc[p] = "unborn"
             /\ nDecoded = 0]_vars

\* the lines that the events appended so far make when they are printed
LinesOfAppends == nAppends * (IF jsonOutput THEN 1 ELSE 2)

\* C25: every event appended to the queue is printed in the end, unless the
\* process exits first: whenever an appended event has not been printed, the
\* output comes to hold the lines of every event appended. (A behaviour here
\* has finitely many appends, so this says of each event that it is printed.)
C25_EveryAppendPrinted ==
    (nLines < LinesOfAppends) ~> (exited \/ nLines = LinesOfAppends)

\* two events appended in two calls of addEvents have both been printed, the
\* second in a later round of the render loop than the first
C25_Witness ==
    /\ ~exited /\ nAppends = 2 /\ NewOrModifiedEvents = << >>
    /\ mainpc = "renderLock" /\ Len(drained) = 2
    /\ nLines = LinesOfAppends

\* C26: the mutex is held only by a goroutine between Lock and Unlock, so not
\* during a request, a sleep or the printing; while the process runs some
\* goroutine has a next step; the mutex does not stay locked for ever; and no
\* poller and no round of the render loop waits for the mutex for ever.
C26_MutexNotHeldAcrossWaits ==
    /\ [](locked => Cardinality(Holders) = 1)
    /\ [](~exited => ENABLED Next)
    /\ []<>(exited \/ ~locked)
    /\ []<>(exited \/ mainpc # "renderLock")
    /\ \A p \in Pollers : []<>(exited \/ pc[p] # "addLock")

\* a poller has got the mutex while the other poller is in the delay after a
\* failed fetch and the render loop waits for the mutex
C26_Witness ==
    /\ ~exited /\ locked /\ mainpc = "renderLock"
    /\ \E p, q \in Pollers : pc[p] = "addLoop" /\ pc[q] = "sleepErr"

\* the queue holds no event twice in a row for its identity: between two
\* events of one identity with the same field values lies an event of that
\* identity with other field values
NoRepeatInQueue ==
    \A i, j \in 1..Len(NewOrModifiedEvents) :
        (/\ i < j
         /\ NewOrModifiedEvents[i].ID = NewOrModifiedEvents[j].ID
         /\ Fields(NewOrModifiedEvents[i]) = Fields(NewOrModifiedEvents[j]))
        => \E k \in (i + 1)..(j - 1) :
              /\ NewOrModifiedEvents[k].ID = NewOrModifiedEvents[i].ID
              /\ Fields(NewOrModifiedEvents[k]) # Fields(NewOrModifiedEvents[i])

JSONOf(obj) == Decorate(UnmarshalEvent(obj), NoProject).JSON

\* C28: two events whose JSON differs have checksums that differ, and when
\* they have the same identity the second is classified as modified.
C28_ChecksumInjective ==
    (fpOut # << >> /\ JSONOf(fpIn[1]) # JSONOf(fpIn[2]))
        => /\ ~BytesEqual(fpOut[1], fpOut[2])
           /\ UnmarshalEvent(fpIn[1]).ID = UnmarshalEvent(fpIn[2]).ID => fpOut[3]

\* the checksums of two versions of one event have been computed, and the
\* second version is classified as modified
C28_Witness ==
    /\ fpOut # << >>
    /\ UnmarshalEvent(fpIn[1]).ID = UnmarshalEvent(fpIn[2]).ID
    /\ JSONOf(fpIn[1]) # JSONOf(fpIn[2])
    /\ fpOut[3]

====
